---- MODULE Spec2Model ----
(***************************************************************************)
(* Generic entity access layer of the Epic Event CRM: the entity          *)
(* repository (filter / save / update / soft_delete / hard_delete on a    *)
(* SQLAlchemy session), the object permission evaluator and the delete    *)
(* and modify flows of the entity controller.                             *)
(*                                                                         *)
(* The storage session is modelled by two stores: db, the committed rows, *)
(* and mem, the rows as the session sees them (identity map plus pending  *)
(* changes).  commit copies mem to db, rollback copies db to mem.         *)
(***************************************************************************)
EXTENDS Integers, Sequences, FiniteSets, TLC

VARIABLES
    db,     \* the committed rows of the four tables
    mem,    \* the rows as the session holds them (pending changes included)
    call,   \* the last repository call and what it returned
    nops,   \* number of repository operations made so far
    perm,   \* the last evaluation of has_object_permission
    pc,     \* where the entity controller stands: the menu, or a flow step
    nflows, \* number of controller flows entered so far
    login,  \* primary key of the logged-in collaborator
    show_archived,  \* SESSION["show_archived"]
    ename,  \* entity_name of the flow entered last
    inst,   \* primary key of the record the flow selected
    fields, \* the field names of the modify menu
    data,   \* the data dict of the modify flow: the last input per field
    edits,  \* history: the edits the modify flow accepted, by field
    shown   \* the error message the flow displayed last

flow ==
    <<pc, nflows, login, show_archived, ename, inst, fields, data, edits,
      shown>>

vars == <<db, mem, call, nops, perm, flow>>

(* ------------------------------ bounds -------------------------------- *)
\* number of repository operations in one behaviour
MaxOps == 2
\* number of controller flows entered in one behaviour
MaxFlows == 1
\* largest primary key a table may hold
MaxId == 2
\* largest amount of a contract
MaxAmount == 1

(* ------------------------------ values -------------------------------- *)
\* Python None / SQL NULL in an integer column (primary keys start at 1)
NULL == 0

Kinds == {"collaborator", "client", "contract", "event"}

Roles == {"admin", "gestion", "commercial", "support"}

Ids == 1..MaxId

\* the columns of each table that the model keeps
Cols(k) ==
    CASE k = "collaborator" -> {"id", "role", "archived"}
      [] k = "client"       -> {"id", "id_commercial", "archived"}
      [] k = "contract"     -> {"id", "client_id", "total_amount",
                                "amount_due", "signed", "archived"}
      [] k = "event"        -> {"id", "contract_id", "support_id", "archived"}

\* the relationships of each mapped class
Rels(k) ==
    CASE k = "collaborator" -> {"events", "clients"}
      [] k = "client"       -> {"contracts", "commercial"}
      [] k = "contract"     -> {"client", "event"}
      [] k = "event"        -> {"contract", "support"}

\* the class a relationship leads to
RelTarget(k, rel) ==
    CASE rel = "events"     -> "event"
      [] rel = "clients"    -> "client"
      [] rel = "contracts"  -> "contract"
      [] rel = "commercial" -> "collaborator"
      [] rel = "client"     -> "client"
      [] rel = "event"      -> "event"
      [] rel = "contract"   -> "contract"
      [] rel = "support"    -> "collaborator"

\* many-to-one relationships and the foreign key column they read
ManyToOne == {"commercial", "client", "contract", "support"}

RelFk(rel) ==
    CASE rel = "events"     -> "support_id"
      [] rel = "clients"    -> "id_commercial"
      [] rel = "contracts"  -> "client_id"
      [] rel = "commercial" -> "id_commercial"
      [] rel = "client"     -> "client_id"
      [] rel = "event"      -> "contract_id"
      [] rel = "contract"   -> "contract_id"
      [] rel = "support"    -> "support_id"

(* ------------------------------ stores -------------------------------- *)
Has(S, k, id) == \E r \in S[k] : r.id = id

Get(S, k, id) == CHOOSE r \in S[k] : r.id = id

Put(S, k, r) == [S EXCEPT ![k] = {x \in @ : x.id # r.id} \cup {r}]

Remove(S, k, id) == [S EXCEPT ![k] = {x \in @ : x.id # id}]

MaxOf(ns) == IF ns = {} THEN 0 ELSE CHOOSE n \in ns : \A m \in ns : m <= n

\* INTEGER PRIMARY KEY of SQLite: one more than the largest key in the table
NextId(S, k) == MaxOf({r.id : r \in S[k]}) + 1

\* the rows a relationship of record r reaches
Related(S, k, r, rel) ==
    IF rel \in ManyToOne
    THEN {t \in S[RelTarget(k, rel)] : t.id = r[RelFk(rel)]}
    ELSE {t \in S[RelTarget(k, rel)] : t[RelFk(rel)] = r.id}

\* the NOT NULL foreign keys of contracts and events
NotNullOK(S) ==
    /\ \A c \in S["contract"] : c.client_id # NULL
    /\ \A e \in S["event"] : e.contract_id # NULL

\* the seeded database
Seed ==
    [collaborator |->
        {[id |-> 1, role |-> "admin", archived |-> FALSE],
         [id |-> 2, role |-> "commercial", archived |-> FALSE]},
     client |-> {[id |-> 1, id_commercial |-> 2, archived |-> FALSE],
                 [id |-> 2, id_commercial |-> 2, archived |-> FALSE]},
     contract |->
        {[id |-> 1, client_id |-> 1, total_amount |-> 1, amount_due |-> 0,
          signed |-> TRUE, archived |-> FALSE]},
     event |-> {[id |-> 1, contract_id |-> 1, support_id |-> NULL,
                 archived |-> FALSE]}]

(* ------------------------- Entity._resolve etc ------------------------- *)
RECURSIVE SortById(_)
\* the rows of a table scan, in primary key order
SortById(rows) ==
    IF rows = {} THEN <<>>
    ELSE LET first == CHOOSE r \in rows : \A o \in rows : r.id <= o.id
         IN  <<first>> \o SortById(rows \ {first})

RECURSIVE KnownPath(_, _)
\* getattr succeeds on every segment of the path
KnownPath(k, parts) ==
    IF Len(parts) = 1 THEN Head(parts) \in Cols(k) \cup Rels(k)
    ELSE /\ Head(parts) \in Rels(k)
         /\ KnownPath(RelTarget(k, Head(parts)), Tail(parts))

RECURSIVE JoinChain(_, _, _, _)
\* the <<class, row>> pairs the INNER JOINs along parts reach from row r
JoinChain(S, k, r, parts) ==
    IF parts = <<>> THEN {<<k, r>>}
    ELSE UNION {JoinChain(S, RelTarget(k, Head(parts)), t, Tail(parts)) :
                    t \in Related(S, k, r, Head(parts))}

\* final_attr == value on the joined row
FinalEq(S, k, r, attr, val) ==
    IF attr \in Cols(k) THEN r[attr] = val
    ELSE IF attr \in ManyToOne THEN r[RelFk(attr)] = val
    ELSE IF val = NULL THEN Related(S, k, r, attr) = {}
    ELSE \E t \in Related(S, k, r, attr) : t.id = val

ButLast(s) == SubSeq(s, 1, Len(s) - 1)

Last(s) == s[Len(s)]

\* one (field_path, value) pair applied to a row of the query
FilterMatch(S, k, r, f) ==
    \E p \in JoinChain(S, k, r, ButLast(f.path)) :
        FinalEq(S, p[1], p[2], Last(f.path), f.val)

\* only the first item of the filters is applied
ApplyFiltersMutant(S, k, rows, filters) ==
    IF filters = <<>> THEN rows
    ELSE {r \in rows : FilterMatch(S, k, r, Head(filters))}

RECURSIVE ApplyFilters(_, _, _, _)
\* query.filter(final_attr == value) for every item of filters, in turn
ApplyFilters(S, k, rows, filters) ==
    IF filters = <<>> THEN rows
    ELSE ApplyFilters(S, k,
                      {r \in rows : FilterMatch(S, k, r, Head(filters))},
                      Tail(filters))

\* the query keeps the bootstrap collaborator
FilterBootstrapMutant(k, rows) == rows

\* the bootstrap collaborator never leaves the query
FilterBootstrap(k, rows) ==
    IF k = "collaborator" THEN {r \in rows : r.id # 1} ELSE rows

FilterArchivedMutant(rows, archived) == rows

\* if hasattr(cls, "archived") and not archived
FilterArchived(rows, archived) ==
    IF ~archived THEN {r \in rows : r.archived = FALSE} ELSE rows

\* a key of **filters that is the name of the parameter archived: the call
\* gives archived twice and Python refuses it
KeywordClash(filters) ==
    \E i \in 1..Len(filters) : filters[i].path = <<"archived">>

\* an unknown name gives the empty list
filter_by_fieldsMutant(S, k, archived, filters) ==
    IF KeywordClash(filters) THEN [raised |-> "TypeError", rows |-> <<>>]
    ELSE IF \E i \in 1..Len(filters) : ~KnownPath(k, filters[i].path)
    THEN [raised |-> "", rows |-> <<>>]
    ELSE [raised |-> "",
          rows |-> SortById(FilterBootstrap(k,
                       ApplyFilters(S, k, FilterArchived(S[k], archived),
                                    filters)))]

\* Entity.filter_by_fields(session, archived, **filters): the list
\* returned, or the error raised
filter_by_fields(S, k, archived, filters) ==
    IF KeywordClash(filters) THEN [raised |-> "TypeError", rows |-> <<>>]
    ELSE IF \E i \in 1..Len(filters) : ~KnownPath(k, filters[i].path)
    THEN [raised |-> "AttributeError", rows |-> <<>>]
    ELSE [raised |-> "",
          rows |-> SortById(FilterBootstrap(k,
                       ApplyFilters(S, k, FilterArchived(S[k], archived),
                                    filters)))]

(* ------------------------ Entity.order_by_fields ----------------------- *)
\* A sort key is a Python value: a number (a flag is the number 0 or 1), a
\* text, a mapped object or a list of mapped objects.  t is its type ("int",
\* "str", "list" or the class of the object), n the number, the rank of the
\* text in the order of texts or the primary key of the object, l the
\* primary keys of the objects of the list.
IntKey(n) == [t |-> "int", n |-> n, l |-> <<>>]

\* the texts the model keeps, in the order of Python texts: "", then the
\* amounts (ranks 1 to 99), then the roles
StrRank(s) ==
    CASE s = "" -> 0
      [] s = "admin" -> 101
      [] s = "commercial" -> 102
      [] s = "gestion" -> 103
      [] s = "support" -> 104

StrKey(s) == [t |-> "str", n |-> StrRank(s), l |-> <<>>]

ObjKey(k, id) == [t |-> k, n |-> id, l |-> <<>>]

ListKey(ids) == [t |-> "list", n |-> 0, l |-> ids]

\* the "" that _resolve returns for None
Sentinel == StrKey("")

\* the foreign key columns, where NULL stands for None
FkCols == {"id_commercial", "support_id", "client_id", "contract_id"}

\* the amounts are String columns: the text of amount v
AmountKey(v) == [t |-> "str", n |-> 2 + v, l |-> <<>>]

\* a value that is false in a test is taken for a missing one
ColKeyMutant(attr, v) ==
    IF attr = "role" THEN StrKey(v)
    ELSE IF attr \in {"total_amount", "amount_due"} THEN AmountKey(v)
    ELSE IF attr \in {"archived", "signed"}
    THEN IF v THEN IntKey(1) ELSE Sentinel
    ELSE IF v = 0 THEN Sentinel ELSE IntKey(v)

\* the value of a column as a sort key
ColKey(attr, v) ==
    IF attr = "role" THEN StrKey(v)
    ELSE IF attr \in {"total_amount", "amount_due"} THEN AmountKey(v)
    ELSE IF attr \in {"archived", "signed"}
    THEN IntKey(IF v THEN 1 ELSE 0)
    ELSE IntKey(v)

RECURSIVE SortIds(_)
\* primary keys in increasing order
SortIds(ns) ==
    IF ns = {} THEN <<>>
    ELSE LET first == CHOOSE n \in ns : \A m \in ns : n <= m
         IN  <<first>> \o SortIds(ns \ {first})

\* None in the place of the object
NoRow == [id |-> NULL]

\* an attribute that is missing resolves to the primary key
_resolveMutant(S, k, r, parts) == IntKey(r.id)

RECURSIVE _resolve(_, _, _, _)
\* Entity._resolve(obj, attr_path): getattr with default None on every
\* segment, "" as soon as the value is None
_resolve(S, k, r, parts) ==
    LET attr == Head(parts)
        rest == Tail(parts)
        ts == Related(S, k, r, attr)
    IN  IF r = NoRow THEN Sentinel
        ELSE IF attr \in Cols(k)
        THEN IF attr \in FkCols /\ r[attr] = NULL THEN Sentinel
             ELSE IF rest # <<>> THEN Sentinel
             ELSE ColKey(attr, r[attr])
        ELSE IF attr \in Rels(k) /\ attr \in ManyToOne \cup {"event"}
        THEN IF ts = {} THEN Sentinel
             ELSE LET t == CHOOSE x \in ts : \A y \in ts : x.id <= y.id
                  IN  IF rest = <<>> THEN ObjKey(RelTarget(k, attr), t.id)
                      ELSE _resolve(S, RelTarget(k, attr), t, rest)
        ELSE IF attr \in Rels(k)
        THEN IF rest # <<>> THEN Sentinel
             ELSE ListKey(SortIds({t.id : t \in ts}))
        ELSE Sentinel

\* list a is the beginning of list b
Prefix(a, b) == Len(a) <= Len(b) /\ SubSeq(b, 1, Len(a)) = a

\* a < b raises no TypeError: numbers with numbers, texts with texts, and
\* lists as long as no two of their objects get compared
Comparable(a, b) ==
    /\ a.t = b.t
    /\ \/ a.t \in {"int", "str"}
       \/ a.t = "list" /\ (Prefix(a.l, b.l) \/ Prefix(b.l, a.l))

\* a < b of Python on comparable keys
Lt(a, b) ==
    IF a.t = "list" THEN a.l # b.l /\ Prefix(a.l, b.l) ELSE a.n < b.n

\* reverse is ignored
sortedMutant(rows, keys, reverse) ==
    LET n == Len(rows)
        rank(i) == Cardinality({j \in 1..n :
                       \/ Lt(keys[j], keys[i])
                       \/ ~Lt(keys[i], keys[j]) /\ j < i}) + 1
    IN  [p \in 1..n |-> rows[CHOOSE i \in 1..n : rank(i) = p]]

\* sorted(rows, key=.., reverse=..) on comparable keys: a stable sort, and
\* reverse keeps the rows with equal keys in their first order
sorted(rows, keys, reverse) ==
    LET n == Len(rows)
        before(a, b) == IF reverse THEN Lt(b, a) ELSE Lt(a, b)
        rank(i) == Cardinality({j \in 1..n :
                       \/ before(keys[j], keys[i])
                       \/ ~before(keys[i], keys[j]) /\ j < i}) + 1
    IN  [p \in 1..n |-> rows[CHOOSE i \in 1..n : rank(i) = p]]

\* the rows order_by_fields fetches, in the order of the table scan: no
\* collaborator of the admin role, no archived row unless asked
Fetched(S, k, archived) ==
    SortById(FilterArchived(IF k = "collaborator"
                            THEN {r \in S[k] : r.role # "admin"} ELSE S[k],
                            archived))

\* Entity.order_by_fields: the list returned, or the error raised by the
\* comparison of two keys
order_by_fields(S, k, path, descending, archived) ==
    LET results == Fetched(S, k, archived)
        keys == [i \in 1..Len(results) |-> _resolve(S, k, results[i], path)]
    IN  IF \E i, j \in 1..Len(results) :
               i < j /\ ~Comparable(keys[i], keys[j])
        THEN [raised |-> "TypeError", rows |-> <<>>]
        ELSE [raised |-> "", rows |-> sorted(results, keys, descending)]

(* ------------------------- commit and rollback ------------------------- *)
\* a failed commit is not rolled back
CommitOrRollbackMutant(D, P, fault) ==
    IF ~fault /\ NotNullOK(P)
    THEN [db |-> P, mem |-> P, committed |-> TRUE, commits |-> 1,
          rollbacks |-> 0]
    ELSE [db |-> D, mem |-> P, committed |-> FALSE, commits |-> 1,
          rollbacks |-> 0]

\* db.commit() on the pending state P, then db.rollback() if it raised
CommitOrRollback(D, P, fault) ==
    IF ~fault /\ NotNullOK(P)
    THEN [db |-> P, mem |-> P, committed |-> TRUE, commits |-> 1,
          rollbacks |-> 0]
    ELSE [db |-> D, mem |-> D, committed |-> FALSE, commits |-> 1,
          rollbacks |-> 1]

\* session.delete(obj) at flush: the children of obj get a NULL foreign key
Unlink(S, k, id) ==
    LET cut(t, fk) == {IF r[fk] = id THEN [r EXCEPT ![fk] = NULL] ELSE r :
                           r \in S[t]}
    IN  CASE k = "collaborator" ->
                [S EXCEPT !["client"] = cut("client", "id_commercial"),
                          !["event"] = cut("event", "support_id")]
          [] k = "client" ->
                [S EXCEPT !["contract"] = cut("contract", "client_id")]
          [] k = "contract" ->
                [S EXCEPT !["event"] = cut("event", "contract_id")]
          [] k = "event" -> S

(* --------------------------- the repository --------------------------- *)
Outcome(op, k, id, out, okText, errText) ==
    [op |-> op, kind |-> k, id |-> id,
     result |-> IF out.committed THEN okText ELSE errText,
     commits |-> out.commits, rollbacks |-> out.rollbacks]

\* the records a caller may build for a table
NewRecords(k) ==
    CASE k = "collaborator" ->
            [id : {NULL}, role : Roles \ {"admin"}, archived : {FALSE}]
      [] k = "client" ->
            [id : {NULL}, id_commercial : {NULL, 2}, archived : {FALSE}]
      [] k = "contract" ->
            [id : {NULL}, client_id : {NULL, 1}, total_amount : {MaxAmount},
             amount_due : {0}, signed : BOOLEAN, archived : {FALSE}]
      [] k = "event" ->
            [id : {NULL}, contract_id : {NULL, 1}, support_id : {NULL},
             archived : {FALSE}]

\* Entity.save of a record the caller built
Save(k, fault) ==
    /\ nops < MaxOps
    /\ NextId(mem, k) <= MaxId
    /\ \E rec \in NewRecords(k) :
           LET new == [rec EXCEPT !.id = NextId(mem, k)]
               out == CommitOrRollback(db, Put(mem, k, new), fault)
           IN  /\ db' = out.db
               /\ mem' = out.mem
               /\ call' = Outcome("save", k, new.id, out, "success",
                              "Erreur de base de donnees lors de la creation")
    /\ nops' = nops + 1
    /\ UNCHANGED <<perm, flow>>

\* the values an attribute assignment may give a column
AttrValues(k, attr) ==
    CASE attr = "role" -> Roles
      [] attr \in {"archived", "signed"} -> BOOLEAN
      [] attr \in {"id_commercial", "support_id"} -> {NULL} \cup Ids
      [] attr \in {"total_amount", "amount_due"} -> 0..MaxAmount
      [] OTHER -> {}

\* obj.attr = value on a record fetched from the session
SetAttr(k, id, attr, v) ==
    /\ nops < MaxOps
    /\ Has(mem, k, id)
    /\ ~(k = "collaborator" /\ id = 1)
    /\ Get(mem, k, id)[attr] # v
    /\ attr \in {"id_commercial", "support_id"} =>
           v = NULL \/ Has(mem, "collaborator", v)
    /\ mem' = Put(mem, k, [Get(mem, k, id) EXCEPT ![attr] = v])
    /\ call' = [op |-> "setattr", kind |-> k, id |-> id]
    /\ nops' = nops + 1
    /\ UNCHANGED <<db, perm, flow>>

\* Entity.update: what it leaves in the stores and what it returns
update(D, M, k, id, fault) ==
    LET out == CommitOrRollback(D, M, fault)
    IN  [db |-> out.db, mem |-> out.mem,
         call |-> Outcome("update", k, id, out, "success",
                          "Erreur de base de donnees lors de la modification")]

\* the call record of soft_delete; was is history: the archived flag the
\* record had when the method was called
Archived(M, k, id, out) ==
    [op |-> "soft_delete", kind |-> k, id |-> id,
     result |-> IF out.committed THEN "success" ELSE "SQLAlchemyError",
     commits |-> out.commits, rollbacks |-> out.rollbacks,
     was |-> Get(M, k, id).archived]

\* the archived flag is flipped
soft_deleteMutant(D, M, k, id, fault) ==
    LET out == CommitOrRollback(D,
                   Put(M, k, [Get(M, k, id) EXCEPT !.archived = ~@]), fault)
    IN  [db |-> out.db, mem |-> out.mem, call |-> Archived(M, k, id, out)]

\* Entity.soft_delete
soft_delete(D, M, k, id, fault) ==
    LET out == CommitOrRollback(D,
                   Put(M, k, [Get(M, k, id) EXCEPT !.archived = TRUE]), fault)
    IN  [db |-> out.db, mem |-> out.mem, call |-> Archived(M, k, id, out)]

\* Entity.hard_delete
hard_delete(D, M, k, id, fault) ==
    LET out == CommitOrRollback(D, Remove(Unlink(M, k, id), k, id), fault)
    IN  [db |-> out.db, mem |-> out.mem,
         call |-> Outcome("hard_delete", k, id, out, "success",
                          "SQLAlchemyError")]

\* the stores and the call record after a repository operation returned r
Returned(r) ==
    /\ db' = r.db
    /\ mem' = r.mem
    /\ call' = r.call
    /\ nops' = nops + 1

\* record.update(session) called on its own
Update(k, id, fault) ==
    /\ nops < MaxOps
    /\ Has(mem, k, id)
    /\ Returned(update(db, mem, k, id, fault))
    /\ UNCHANGED <<perm, flow>>

\* record.soft_delete(session) called on its own
SoftDelete(k, id, fault) ==
    /\ nops < MaxOps
    /\ Has(mem, k, id)
    /\ Returned(soft_delete(db, mem, k, id, fault))
    /\ UNCHANGED <<perm, flow>>

\* record.hard_delete(session) called on its own
HardDelete(k, id, fault) ==
    /\ nops < MaxOps
    /\ Has(mem, k, id)
    /\ Returned(hard_delete(db, mem, k, id, fault))
    /\ UNCHANGED <<perm, flow>>

RECURSIVE IdLookups(_)
\* filter_by_fields(session, archived, id=n) for every key up to n
IdLookups(n) ==
    IF n = 0 THEN <<>>
    ELSE Append(IdLookups(n - 1), <<[path |-> <<"id">>, val |-> n]>>)

\* the filter maps the callers build, for the user with primary key uid:
\* none, a lookup by id, the field chosen in the filter menu, names that
\* are none, and the role specific maps of list_entity
FilterMaps(k, uid) ==
    <<<<>>, <<[path |-> <<"archived">>, val |-> TRUE]>>,
      <<[path |-> <<"archived">>, val |-> FALSE]>>,
      <<[path |-> <<"ghost">>, val |-> NULL]>>,
      <<[path |-> <<"ghost", "id">>, val |-> NULL]>>>>
    \o IdLookups(MaxId)
    \o CASE k = "collaborator" -> <<>>
         [] k = "client" ->
              <<<<[path |-> <<"commercial">>, val |-> uid]>>,
                <<[path |-> <<"id_commercial">>, val |-> uid]>>,
                <<[path |-> <<"commercial", "ghost">>, val |-> uid]>>>>
         [] k = "contract" ->
              <<<<[path |-> <<"signed">>, val |-> TRUE],
                  [path |-> <<"client", "commercial">>, val |-> uid],
                  [path |-> <<"event">>, val |-> NULL]>>>>
         [] k = "event" ->
              <<<<[path |-> <<"support_id">>, val |-> NULL]>>,
                <<[path |-> <<"support">>, val |-> uid]>>>>

\* Model.filter_by_fields(session, archived, **filters) with one of the
\* filter maps
Filter(k, archived, uid) ==
    /\ nops < MaxOps
    /\ Has(mem, "collaborator", uid)
    /\ \E i \in 1..Len(FilterMaps(k, uid)) :
           LET filters == FilterMaps(k, uid)[i]
               out == filter_by_fields(mem, k, archived, filters)
           IN  call' = [op |-> "filter", kind |-> k, archived |-> archived,
                        filters |-> filters, raised |-> out.raised,
                        rows |-> out.rows]
    /\ nops' = nops + 1
    /\ UNCHANGED <<db, mem, perm, flow>>

(* ----------------------- has_object_permission ------------------------ *)
Actions == {"update", "delete", "password", "modify"}

\* a Python object: persistent ("p", one per row of the session) or
\* transient ("t", built by the caller and never saved)
Ref(tag, k, n) == <<tag, k, n>>

NoneRef == <<"none", "none", NULL>>

\* the logged-in collaborator, as loaded from the session
UserObj(S, uid) ==
    [ref |-> Ref("p", "collaborator", uid), id |-> uid,
     role |-> Get(S, "collaborator", uid).role]

\* the object a relationship attribute of a persistent row holds
RelObj(S, k, r, rel) ==
    IF rel \in Rels(k) /\ Related(S, k, r, rel) # {}
    THEN Ref("p", RelTarget(k, rel), r[RelFk(rel)])
    ELSE NoneRef

\* a row of the session as has_object_permission sees it
ItemOf(S, k, r) ==
    [kind |-> k, ref |-> Ref("p", k, r.id), id |-> r.id,
     commercial |-> RelObj(S, k, r, "commercial"),
     support |-> RelObj(S, k, r, "support")]

PersistentItems(S) == UNION {{ItemOf(S, k, r) : r \in S[k]} : k \in Kinds}

\* objects built outside the session: Collaborator(id=n), a client or an
\* event holding such a collaborator, and an object of no mapped class
TransientItems(S) ==
    LET owners == {NoneRef, Ref("t", "collaborator", MaxId + 1)}
                      \cup {Ref("p", "collaborator", c.id) :
                                c \in S["collaborator"]}
    IN  {[kind |-> "collaborator", ref |-> Ref("t", "collaborator", n),
          id |-> n, commercial |-> NoneRef, support |-> NoneRef] :
              n \in {NULL} \cup Ids \cup {MaxId + 1}}
        \cup {[kind |-> "client", ref |-> Ref("t", "client", NULL),
               id |-> NULL, commercial |-> o, support |-> NoneRef] :
                   o \in owners}
        \cup {[kind |-> "event", ref |-> Ref("t", "event", NULL),
               id |-> NULL, commercial |-> NoneRef, support |-> o] :
                   o \in owners}
        \cup {[kind |-> "contract", ref |-> Ref("t", "contract", NULL),
               id |-> NULL, commercial |-> NoneRef, support |-> NoneRef],
              [kind |-> "other", ref |-> Ref("t", "other", NULL),
               id |-> NULL, commercial |-> NoneRef, support |-> NoneRef]}

PermCollaboratorMutant(user, action, item) ==
    \/ item.id = user.id
    \/ user.role = "gestion"
    \/ action = "password" /\ item.ref = user.ref

\* isinstance(item, Collaborator)
PermCollaborator(user, action, item) ==
    \/ item.id = user.id
    \/ user.role = "gestion" /\ action # "password"
    \/ action = "password" /\ item.ref = user.ref

PermClientMutant(user, action, item) ==
    item.commercial = user.ref \/ user.role = "gestion"

\* isinstance(item, Client)
PermClient(user, action, item) == item.commercial = user.ref

PermContractMutant(user, action, item) ==
    user.role \in {"gestion", "commercial"}

\* isinstance(item, Contract)
PermContract(user, action, item) == user.role = "gestion"

PermEventMutant(user, action, item) ==
    item.support = user.ref \/ user.role = "gestion"

\* isinstance(item, Event)
PermEvent(user, action, item) ==
    \/ item.support = user.ref
    \/ user.role = "gestion" /\ action = "update"

PermAdminMutant(user, item) == user.role = "admin" /\ item.kind \in Kinds

\* if user.role == "admin": return True
PermAdmin(user, item) == user.role = "admin"

has_object_permission(user, action, item) ==
    IF PermAdmin(user, item) THEN TRUE
    ELSE IF item.kind = "collaborator"
         THEN PermCollaborator(user, action, item)
    ELSE IF item.kind = "client" THEN PermClient(user, action, item)
    ELSE IF item.kind = "contract" THEN PermContract(user, action, item)
    ELSE IF item.kind = "event" THEN PermEvent(user, action, item)
    ELSE FALSE

Evaluation(user, action, item) ==
    [user |-> user, action |-> action, item |-> item,
     result |-> has_object_permission(user, action, item)]

\* has_object_permission(user, action, item) called on its own
PermCheck(uid, action, item) ==
    /\ nops < MaxOps
    /\ Has(mem, "collaborator", uid)
    /\ perm' = Evaluation(UserObj(mem, uid), action, item)
    /\ nops' = nops + 1
    /\ UNCHANGED <<db, mem, call, flow>>

(* ------------------------ EntityController flows ----------------------- *)
\* the filter map list_entity builds; uid = NULL when no user is passed
ListFilters(k, role, uid, purpose) ==
    IF uid = NULL THEN <<>>
    ELSE IF purpose = "list"
    THEN IF role = "commercial" /\ k = "contract"
         THEN <<[path |-> <<"signed">>, val |-> TRUE],
                [path |-> <<"client", "commercial">>, val |-> uid],
                [path |-> <<"event">>, val |-> NULL]>>
         ELSE IF role = "gestion" /\ k = "event"
         THEN <<[path |-> <<"support_id">>, val |-> NULL]>>
         ELSE <<>>
    ELSE IF purpose = "modify"
    THEN IF k = "collaborator" /\ role \notin {"admin", "gestion"}
         THEN <<[path |-> <<"id">>, val |-> uid]>>
         ELSE IF k = "client"
         THEN <<[path |-> <<"commercial">>, val |-> uid]>>
         ELSE IF k = "event" /\ role = "support"
         THEN <<[path |-> <<"support">>, val |-> uid]>>
         ELSE <<>>
    ELSE <<>>

\* list_entity: the error it returns, "" for None
list_entity(S, k, archived, role, uid, purpose) ==
    IF filter_by_fields(S, k, archived,
                        ListFilters(k, role, uid, purpose)).rows = <<>>
    THEN "aucun element disponible"
    ELSE ""

\* Model.filter_by_fields(session, SESSION["show_archived"], id=entity_id)
Lookup(S, k, archived, id) ==
    filter_by_fields(S, k, archived, <<[path |-> <<"id">>, val |-> id]>>).rows

\* the logged-in user is still a row of the session
LoggedIn == Has(mem, "collaborator", login)

\* a non-admin removes rows too
DeleteOpMutant(role) ==
    IF role \notin {"admin", "gestion"} THEN "soft_delete" ELSE "hard_delete"

\* if user.role != "admin": soft_delete, else: hard_delete
DeleteOp(role) == IF role # "admin" THEN "soft_delete" ELSE "hard_delete"

\* delete_entity is entered from the menu
StartDelete(k) ==
    /\ pc = "menu"
    /\ nops < MaxOps
    /\ nflows < MaxFlows
    /\ nflows' = nflows + 1
    /\ LoggedIn
    /\ pc' = "delete_ask"
    /\ ename' = k
    /\ UNCHANGED <<db, mem, call, nops, perm, login, show_archived, inst,
                   fields, data, edits, shown>>

\* delete_entity: ask_id, the lookup and the permission test; id = NULL is
\* the empty input
DeleteAskId(id) ==
    /\ pc = "delete_ask"
    /\ IF id = NULL
       THEN pc' = "menu" /\ UNCHANGED <<perm, inst, shown>>
       ELSE LET instances == Lookup(mem, ename, show_archived, id)
            IN  IF instances = <<>>
                THEN /\ shown' = "introuvable"
                     /\ UNCHANGED <<pc, perm, inst>>
                ELSE LET ev == Evaluation(UserObj(mem, login), "delete",
                                   ItemOf(mem, ename, instances[1]))
                     IN  /\ perm' = ev
                         /\ IF ev.result
                            THEN /\ pc' = "delete_confirm"
                                 /\ inst' = id
                                 /\ UNCHANGED shown
                            ELSE /\ shown' = "Vous n'avez pas l'autorisation"
                                 /\ UNCHANGED <<pc, inst>>
    /\ UNCHANGED <<db, mem, call, nops, nflows, login, show_archived, ename,
                   fields, data, edits>>

(* ------------------- EntityController.show_details_entity ------------- *)
\* show_details_entity is entered from the details menu
StartDetails(k) ==
    /\ pc = "menu"
    /\ nops < MaxOps
    /\ nflows < MaxFlows
    /\ nflows' = nflows + 1
    /\ LoggedIn
    /\ pc' = "details_ask"
    /\ ename' = k
    /\ UNCHANGED <<db, mem, call, nops, perm, login, show_archived, inst,
                   fields, data, edits, shown>>

\* show_details_entity: ask_id and the lookup; the record found is
\* displayed and the flow ends
DetailsAskId(id) ==
    /\ pc = "details_ask"
    /\ IF id = NULL
       THEN pc' = "menu" /\ UNCHANGED <<inst, shown>>
       ELSE IF Lookup(mem, ename, show_archived, id) = <<>>
       THEN shown' = "introuvable" /\ UNCHANGED <<pc, inst>>
       ELSE pc' = "menu" /\ inst' = id /\ UNCHANGED shown
    /\ UNCHANGED <<db, mem, call, nops, perm, nflows, login, show_archived,
                   ename, fields, data, edits>>

\* delete_entity: valide_choice_menu and the deletion
DeleteConfirm(yes, fault) ==
    /\ pc = "delete_confirm"
    /\ pc' = "menu"
    /\ IF yes
       THEN IF DeleteOp(UserObj(mem, login).role) = "soft_delete"
            THEN Returned(soft_delete(db, mem, ename, inst, fault))
            ELSE Returned(hard_delete(db, mem, ename, inst, fault))
       ELSE UNCHANGED <<db, mem, call, nops>>
    /\ UNCHANGED <<perm, nflows, login, show_archived, ename, inst, fields,
                   data, edits, shown>>

\* all_fields of Collaborator, Client and Contract, by name
AllFields(k) ==
    CASE k = "collaborator" ->
            <<"id", "full_name", "password", "email", "role", "archived">>
      [] k = "client" ->
            <<"id", "full_name", "email", "phone", "company_name",
              "created_date", "last_contact_date", "commercial.full_name",
              "id_commercial", "archived">>
      [] k = "contract" ->
            <<"id", "client_id", "client.company_name", "total_amount",
              "amount_due", "created_date", "signed", "archived">>

\* excepted_fields[purpose]
Excepted(k, purpose) ==
    CASE k = "collaborator" ->
            (CASE purpose = "list" -> {"password", "archived"}
               [] purpose = "create" -> {"id", "archived"}
               [] purpose = "modify" -> {"id", "password", "archived"})
      [] k = "client" ->
            (CASE purpose = "list" -> {"id_commercial", "archived"}
               [] purpose = "create" ->
                     {"id", "commercial.full_name", "created_date",
                      "archived"}
               [] purpose = "modify" ->
                     {"id", "commercial.full_name", "archived"})
      [] k = "contract" ->
            (CASE purpose = "list" -> {"client_id", "archived"}
               [] purpose = "create" ->
                     {"id", "client.company_name", "created_date",
                      "archived"}
               [] purpose = "modify" ->
                     {"id", "client_id", "client.company_name",
                      "created_date", "archived"})

\* the roles that may create or modify a kind
FieldRoles(k) ==
    IF k = "client" THEN {"admin", "commercial"} ELSE {"admin", "gestion"}

\* the classes that define get_fields: Event defines get_field(), without
\* parameters, and no get_fields
HasGetFields(k) == k # "event"

\* the admin gets the archived descriptor for every purpose
get_fieldsMutant(k, role, purpose) ==
    LET kept == SelectSeq(AllFields(k),
                          LAMBDA f : f \notin Excepted(k, purpose))
        more == IF role = "admin" THEN Append(kept, "archived") ELSE kept
    IN  IF role \notin FieldRoles(k) /\ purpose # "list" THEN <<>>
        ELSE more

\* Model.get_fields(role, purpose) of Collaborator, Client and Contract
get_fields(k, role, purpose) ==
    LET kept == SelectSeq(AllFields(k),
                          LAMBDA f : f \notin Excepted(k, purpose))
        more == IF role = "admin" /\ purpose # "create"
                THEN Append(kept, "archived") ELSE kept
    IN  IF role \notin FieldRoles(k) /\ purpose # "list" THEN <<>>
        ELSE more

\* list.insert(1, x)
Insert1(s, x) ==
    IF s = <<>> THEN <<x>> ELSE <<Head(s), x>> \o Tail(s)

\* admin and gestion get the password on every collaborator
ModifyFieldsMutant(k, role, own) ==
    LET fs == get_fields(k, role, "modify")
    IN  IF k = "collaborator" /\ role \in {"admin", "gestion"}
        THEN Insert1(fs, "password")
        ELSE IF own THEN Append(fs, "password")
        ELSE fs

\* the menu of the modify flow: the password joins it on the user's own
\* record
ModifyFields(k, role, own) ==
    LET fs == get_fields(k, role, "modify")
    IN  IF ~own THEN fs
        ELSE IF role \in {"admin", "gestion"} THEN Insert1(fs, "password")
        ELSE Append(fs, "password")

\* the entries of the data dict that a validator of another field reads:
\* validate_amount_due takes total_amount from it
DataKeys(fs) == {fs[i] : i \in 1..Len(fs)} \cap {"total_amount"}

(* ----------------------------- validators ----------------------------- *)
\* What a user types is a text.  For a numeric column the model keeps of a
\* text the number it spells, Word for a text that spells no number and
\* Blank for the empty text; NULL is Python None.
Word == -2

Blank == -3

\* "if not x" of Python
Falsy(raw) == raw \in {NULL, Blank}

\* int(x) raises ValueError on a text that spells no number
IntRaises(raw) == raw \in {Word, Blank}

\* float(x) raises ValueError or TypeError
FloatRaises(raw) == raw \in {Word, Blank}

\* what a validator hands back: (value, None), (None, error), (None, None)
\* or an exception
Value(v) == [out |-> "value", value |-> v, error |-> ""]

Error(msg) == [out |-> "error", value |-> NULL, error |-> msg]

Nothing == [out |-> "none", value |-> NULL, error |-> ""]

Raise(exc) == [out |-> "raise", value |-> NULL, error |-> exc]

\* the validate_<field> methods each class defines
Validators(k) ==
    CASE k = "collaborator" ->
            {"full_name", "email", "role", "password", "archived"}
      [] k = "client" ->
            {"full_name", "email", "phone", "company_name",
             "last_contact_date", "archived", "id_commercial"}
      [] k = "contract" ->
            {"signed", "total_amount", "amount_due", "client_id", "archived"}
      [] k = "event" ->
            {"title", "start_date", "end_date", "participants",
             "contract_id", "location", "notes", "support_id", "archived"}

\* hasattr(Model, "validate_" + field)
HasValidator(k, field) == field \in Validators(k)

\* Collaborator.validate_role; SERVICES are the three services
validate_role(role) ==
    IF role \notin {"gestion", "commercial", "support"} /\ role # "admin"
    THEN Error("Invalid role")
    ELSE Value(role)

\* validate_archived of the four classes
validate_archived(archived) ==
    Value(archived \in {"y", "yes", "true", "o", "oui"})

\* Contract.validate_signed of a text
validate_signed(signed) ==
    Value(signed \in {"y", "yes", "oui", "true", "o"})

\* Client.validate_id_commercial
validate_id_commercial(S, id_commercial) ==
    IF Falsy(id_commercial) THEN Error("Missing commercial id.")
    ELSE IF IntRaises(id_commercial) THEN Raise("ValueError")
    ELSE IF \/ ~Has(S, "collaborator", id_commercial)
            \/ Get(S, "collaborator", id_commercial).role # "commercial"
    THEN Error("No commercial found")
    ELSE Value(id_commercial)

\* Contract.validate_client_id
validate_client_id(S, client_id) ==
    IF Falsy(client_id) THEN Error("Missing client_id.")
    ELSE IF ~Has(S, "client", client_id) THEN Error("No client found")
    ELSE Value(client_id)

\* Contract.validate_total_amount
validate_total_amount(total_amount) ==
    IF FloatRaises(total_amount)
    THEN Error("total amount must be valid numeric values.")
    ELSE IF total_amount < 0 THEN Error("Amount must be positive.")
    ELSE Value(total_amount)

\* Contract.validate_amount_due
validate_amount_due(total_amount, amount_due) ==
    IF FloatRaises(total_amount) \/ FloatRaises(amount_due)
    THEN Error("Amounts must be valid numeric values.")
    ELSE IF amount_due < 0 THEN Error("Amounts must be positive.")
    ELSE IF amount_due > total_amount
    THEN Error("Amount due cannot exceed total amount.")
    ELSE Value(amount_due)

\* the error of a signed contract that is not the user's
OwnerTest(S, user, contract) ==
    LET client == Get(S, "client", contract.client_id)
    IN  IF ~Has(S, "client", contract.client_id)
        THEN Raise("AttributeError")
        ELSE IF /\ RelObj(S, "client", client, "commercial") # user.ref
           /\ user.role # "admin"
        THEN Error("you aren't allow to create events for the other "
                   \o "commercial clients")
        ELSE Value(contract.id)

\* an unsigned contract is accepted
validate_contract_idMutant(S, user, contract_id) ==
    LET contracts == filter_by_fields(S, "contract", FALSE,
                         <<[path |-> <<"id">>, val |-> contract_id]>>).rows
    IN  IF contracts = <<>> THEN Error("Contract ID not found.")
        ELSE IF Related(S, "contract", contracts[1], "event") # {}
        THEN Error("this contract already has a linked event")
        ELSE OwnerTest(S, user, contracts[1])

\* Event.validate_contract_id
validate_contract_id(S, user, contract_id) ==
    LET contracts == filter_by_fields(S, "contract", FALSE,
                         <<[path |-> <<"id">>, val |-> contract_id]>>).rows
    IN  IF contracts = <<>> THEN Error("Contract ID not found.")
        ELSE IF Related(S, "contract", contracts[1], "event") # {}
        THEN Error("this contract already has a linked event")
        ELSE IF ~contracts[1].signed
        THEN Error("The contract must be signed before assigning to an "
                   \o "event.")
        ELSE OwnerTest(S, user, contracts[1])

\* Event.validate_support_id
validate_support_id(S, support_id) ==
    IF support_id = NULL THEN Nothing
    ELSE IF ~Has(S, "collaborator", support_id)
    THEN Error("Collaborator ID not found.")
    ELSE IF Get(S, "collaborator", support_id).role # "support"
    THEN Raise("ValueError")
    ELSE Value(support_id)

\* a field without a validator is accepted as typed
MissingValidatorMutant(field) == Value(field)

\* the error of validate_field for a field without a validator; of the
\* message the model keeps the method name it quotes
MissingValidator(field) == Error("validate_" \o field)

\* the fields whose validator the model follows
Followed(k) ==
    Validators(k) \cap {"role", "archived", "signed", "id_commercial",
                        "client_id", "total_amount", "amount_due",
                        "contract_id", "support_id"}

\* EntityController.validate_field: the arguments are taken from the
\* session, the user and the data dict d by the names of the parameters
validate_field(S, k, field, user, d) ==
    IF ~HasValidator(k, field) THEN MissingValidator(field)
    ELSE CASE field = "role" -> validate_role(d["role"])
           [] field = "archived" -> validate_archived(d["archived"])
           [] field = "signed" -> validate_signed(d["signed"])
           [] field = "id_commercial" ->
                 validate_id_commercial(S, d["id_commercial"])
           [] field = "client_id" -> validate_client_id(S, d["client_id"])
           [] field = "total_amount" ->
                 validate_total_amount(d["total_amount"])
           [] field = "amount_due" ->
                 validate_amount_due(d["total_amount"], d["amount_due"])
           [] field = "contract_id" ->
                 validate_contract_id(S, user, d["contract_id"])
           [] field = "support_id" ->
                 validate_support_id(S, d["support_id"])

\* what may be typed for a field: every text the validator tells apart
RawValues(k, field) ==
    IF ~HasValidator(k, field) THEN {Word}
    ELSE CASE field = "role" -> Roles \cup {"chef"}
           [] field \in {"archived", "signed"} -> {"oui", "non"}
           [] field \in {"id_commercial", "client_id", "contract_id"} ->
                 {Blank, Word} \cup 1..(MaxId + 1)
           [] field = "support_id" -> {NULL, Blank, Word} \cup 1..(MaxId + 1)
           [] field \in {"total_amount", "amount_due"} ->
                 {Word} \cup -1..MaxAmount
           [] OTHER -> {}

\* fields[choice] of Python: choice -1 is the last field
PyIndex(s, choice) == IF choice < 0 THEN s[Len(s) + 1 + choice]
                      ELSE s[choice + 1]

\* modify_entity is entered from the menu: list_entity(.., "modify") first
StartModify(k) ==
    /\ pc = "menu"
    /\ nops < MaxOps
    /\ nflows < MaxFlows
    /\ nflows' = nflows + 1
    /\ LoggedIn
    /\ list_entity(mem, k, show_archived, UserObj(mem, login).role, login,
                   "modify") = ""
    /\ pc' = "modify_ask"
    /\ ename' = k
    /\ UNCHANGED <<db, mem, call, nops, perm, login, show_archived, inst,
                   fields, data, edits, shown>>

\* modify_entity: ask_id, the lookup, the permission test, then the menu
\* and the data dict; Event has no get_fields and the call raises
ModifyAskId(id) ==
    /\ pc = "modify_ask"
    /\ IF id = NULL
       THEN /\ pc' = "menu"
            /\ UNCHANGED <<perm, inst, fields, data, edits, shown>>
       ELSE LET instances == Lookup(mem, ename, show_archived, id)
            IN  IF instances = <<>>
                THEN /\ shown' = "introuvable."
                     /\ UNCHANGED <<pc, perm, inst, fields, data, edits>>
                ELSE LET u == UserObj(mem, login)
                         entity == instances[1]
                         ev == Evaluation(u, "update",
                                          ItemOf(mem, ename, entity))
                         fs == ModifyFields(ename, u.role,
                                   ItemOf(mem, ename, entity).ref = u.ref)
                     IN  /\ perm' = ev
                         /\ IF ~ev.result
                            THEN /\ shown' = "Vous n'avez pas l'autorisation"
                                 /\ UNCHANGED <<pc, inst, fields, data,
                                                edits>>
                            ELSE IF ename = "event"
                            THEN /\ pc' = "crashed"
                                 /\ inst' = id
                                 /\ UNCHANGED <<fields, data, edits, shown>>
                            ELSE /\ pc' = "modify_menu"
                                 /\ inst' = id
                                 /\ fields' = fs
                                 /\ data' = [f \in DataKeys(fs) |->
                                                 entity[f]]
                                 /\ edits' = <<>>
                                 /\ UNCHANGED shown
    /\ UNCHANGED <<db, mem, call, nops, nflows, login, show_archived, ename>>

\* data[field[0]] = ask_information(..): the data dict with the input
EditData(field, raw) ==
    [f \in DOMAIN data \cup {field} |-> IF f = field THEN raw ELSE data[f]]

\* validate_field(Model, field, session, user, data) on the input
EditResult(field, raw) ==
    validate_field(mem, ename, field, UserObj(mem, login),
                   EditData(field, raw))

\* modify_entity: a field of the menu is chosen, a value typed and, when
\* the validator hands back a value, set on the record
ModifyEdit(choice, raw) ==
    /\ pc = "modify_menu"
    /\ choice < Len(fields)
    /\ IF fields = <<>>
       THEN /\ pc' = "crashed"
            /\ UNCHANGED <<mem, data, edits, shown>>
       ELSE LET field == PyIndex(fields, choice)
            IN  /\ raw \in RawValues(ename, field)
                /\ LET d == EditData(field, raw)
                       v == EditResult(field, raw)
                   IN  /\ data' = [f \in DOMAIN data |-> d[f]]
                       /\ IF v.out = "raise"
                          THEN /\ pc' = "crashed"
                               /\ UNCHANGED <<mem, edits, shown>>
                          ELSE IF v.out = "value"
                          THEN /\ mem' = Put(mem, ename,
                                           [Get(mem, ename, inst)
                                               EXCEPT ![field] = v.value])
                               /\ edits' =
                                      [a \in DOMAIN edits \cup {field} |->
                                          IF a = field THEN v.value
                                          ELSE edits[a]]
                               /\ shown' = "mis a jour (non sauvegarde)"
                               /\ UNCHANGED pc
                          ELSE /\ shown' = v.error
                               /\ UNCHANGED <<pc, mem, edits>>
    /\ UNCHANGED <<db, call, nops, perm, nflows, login, show_archived, ename,
                   inst, fields>>

\* modify_entity: the cancel option, session.refresh(entity)
ModifyCancel ==
    /\ pc = "modify_menu"
    /\ pc' = "menu"
    /\ mem' = Put(mem, ename, Get(db, ename, inst))
    /\ call' = [op |-> "refresh", kind |-> ename, id |-> inst]
    /\ UNCHANGED <<db, nops, perm, nflows, login, show_archived, ename, inst,
                   fields, data, edits, shown>>

\* modify_entity: the save option, entity.update(session); the menu comes
\* back when update did not return "success"
ModifySave(fault) ==
    /\ pc = "modify_menu"
    /\ nops < MaxOps
    /\ LET r == update(db, mem, ename, inst, fault)
       IN  /\ Returned(r)
           /\ pc' = IF r.call.result = "success" THEN "menu"
                    ELSE "modify_menu"
           /\ shown' = IF r.call.result = "success"
                       THEN "a ete enregistre avec succes."
                       ELSE r.call.result
    /\ UNCHANGED <<perm, nflows, login, show_archived, ename, inst, fields,
                   data, edits>>

(* --------------------- EntityController.create_entity ------------------ *)
\* permissions[entity_name][role] holds "create"
CreateRoles(k) ==
    CASE k = "collaborator" -> {"admin", "gestion"}
      [] k = "client" -> {"admin", "commercial"}
      [] k = "contract" -> {"admin", "gestion"}
      [] k = "event" -> {"admin", "commercial"}

\* the text "quit" typed for a field whose inputs the model keeps as numbers
Quit == -4

\* the fields whose inputs the model keeps as texts
TextInputs == {"role", "archived", "signed"}

\* data[field[0]] == "quit"
IsQuit(field, raw) ==
    IF field \in TextInputs THEN raw = "quit" ELSE raw = Quit

\* the validators of the columns the model does not keep (full_name, email,
\* password, phone, company_name, last_contact_date): an empty or malformed
\* text (Blank) is refused, a well-formed one (Word) is handed back
validate_text(raw) ==
    IF raw = Blank THEN Error("invalid or empty") ELSE Value(raw)

\* what may be typed at a prompt of the create flow
CreateValues(k, field) ==
    IF field \in Followed(k)
    THEN RawValues(k, field)
             \cup {IF field \in TextInputs THEN "quit" ELSE Quit}
    ELSE {Blank, Word, Quit}

\* validate_field on the data dict d of the create flow
CreateResult(k, field, d) ==
    IF field \in Followed(k) \/ ~HasValidator(k, field)
    THEN validate_field(mem, k, field, UserObj(mem, login), d)
    ELSE validate_text(d[field])

\* the dict d with value v under the key field
WithKey(d, field, v) ==
    [f \in DOMAIN d \cup {field} |-> IF f = field THEN v ELSE d[f]]

\* the keys that create reads with data[...], in the order it reads them
CreateKeys(k) ==
    CASE k = "collaborator" -> {"full_name", "email", "role", "password"}
      [] k = "client" -> {"full_name", "email", "id_commercial", "phone",
                          "company_name", "last_contact_date"}
      [] OTHER -> {}

\* model_controller.create(data): the record built, None, or the KeyError
\* of a key that the dict lacks.  Every value of the dict is true in a
\* test: it was handed back by a validator or it is the text "quit".
create(k, d) ==
    IF ~(CreateKeys(k) \subseteq DOMAIN d)
    THEN [out |-> "raise", rec |-> <<>>]
    ELSE IF k = "contract"
            /\ ~({"client_id", "total_amount", "amount_due", "signed"}
                    \subseteq DOMAIN d)
    THEN [out |-> "none", rec |-> <<>>]
    ELSE [out |-> "value",
          rec |-> CASE k = "collaborator" ->
                          [id |-> NULL, role |-> d["role"],
                           archived |-> FALSE]
                    [] k = "client" ->
                          [id |-> NULL, id_commercial |-> d["id_commercial"],
                           archived |-> FALSE]
                    [] k = "contract" ->
                          [id |-> NULL, client_id |-> d["client_id"],
                           total_amount |-> d["total_amount"],
                           amount_due |-> d["amount_due"],
                           signed |-> d["signed"], archived |-> FALSE]]

\* the field the loop of create_entity stands at, after n fields were
\* accepted; "" past the last one
FieldAt(fs, n) == IF n < Len(fs) THEN fs[n + 1] ELSE ""

\* field[0] == "id_commercial" and user.role == "commercial": the field is
\* given the id of the user and no prompt is shown
AutoField(fs, n) ==
    /\ FieldAt(fs, n) = "id_commercial"
    /\ UserObj(mem, login).role = "commercial"

\* the dict and the accepted fields once the loop stands at a prompt again
\* or has left the last field
Advance(fs, d, e) ==
    IF AutoField(fs, Cardinality(DOMAIN e))
    THEN [d |-> WithKey(d, "id_commercial", login),
          e |-> WithKey(e, "id_commercial", login)]
    ELSE [d |-> d, e |-> e]

\* create_entity after its loop: create(data), then item.save(session).
\* quitAt is the field that holds the text "quit", "" when none does; that
\* text in the Boolean column signed makes the flush raise StatementError,
\* which save answers like a failed commit.
CreateFinish(d, e, quitAt, fault) ==
    LET item == create(ename, d)
    IN  /\ data' = d
        /\ edits' = e
        /\ IF item.out # "value"
           THEN /\ pc' = "crashed"
                /\ UNCHANGED <<db, mem, call, nops, shown>>
           ELSE LET new == [item.rec EXCEPT !.id = NextId(mem, ename)]
                    out == CommitOrRollback(db, Put(mem, ename, new),
                               fault \/ quitAt = "signed")
                IN  /\ pc' = "menu"
                    /\ db' = out.db
                    /\ mem' = out.mem
                    /\ call' = Outcome("save", ename, new.id, out, "success",
                              "Erreur de base de donnees lors de la creation")
                    /\ nops' = nops + 1
                    /\ shown' = IF out.committed THEN "cree avec succes."
                                ELSE call'.result

\* create_entity is entered from the menu: get_fields, the listing of the
\* records a foreign key may name, then the first prompt
StartCreate(k) ==
    /\ pc = "menu"
    /\ nops < MaxOps
    /\ nflows < MaxFlows
    /\ nflows' = nflows + 1
    /\ LoggedIn
    /\ UserObj(mem, login).role \in CreateRoles(k)
    /\ NextId(mem, k) <= MaxId + 1
    /\ ename' = k
    /\ IF ~HasGetFields(k)
       THEN /\ pc' = "crashed"
            /\ UNCHANGED <<fields, data, edits, shown>>
       ELSE LET role == UserObj(mem, login).role
                fs == get_fields(k, role, "create")
                error == IF k = "contract"
                         THEN list_entity(mem, "client", show_archived, role,
                                          login, "list")
                         ELSE ""
                a == Advance(fs, <<>>, <<>>)
            IN  IF error # ""
                THEN /\ pc' = "menu"
                     /\ shown' = error
                     /\ UNCHANGED <<fields, data, edits>>
                ELSE /\ pc' = "create_ask"
                     /\ fields' = fs
                     /\ data' = a.d
                     /\ edits' = a.e
                     /\ shown' = ""
    /\ UNCHANGED <<db, mem, call, nops, perm, login, show_archived, inst>>

\* create_entity: a value is typed at the prompt of the current field; the
\* loop ends on "quit" and after the last field
CreateInput(raw, fault) ==
    /\ pc = "create_ask"
    /\ LET n == Cardinality(DOMAIN edits)
           field == FieldAt(fields, n)
           d == WithKey(data, field, raw)
       IN  /\ raw \in CreateValues(ename, field)
           /\ IF IsQuit(field, raw)
              THEN CreateFinish(d, edits, field, fault)
              ELSE LET v == CreateResult(ename, field, d)
                       a == Advance(fields, WithKey(d, field, v.value),
                                    WithKey(edits, field, v.value))
                   IN  IF v.out = "raise"
                       THEN /\ pc' = "crashed"
                            /\ data' = d
                            /\ UNCHANGED <<db, mem, call, nops, edits, shown>>
                       ELSE IF v.out # "value"
                       THEN /\ shown' = v.error
                            /\ data' = d
                            /\ UNCHANGED <<db, mem, call, nops, pc, edits>>
                       ELSE IF Cardinality(DOMAIN a.e) = Len(fields)
                       THEN CreateFinish(a.d, a.e, "", fault)
                       ELSE /\ data' = a.d
                            /\ edits' = a.e
                            /\ shown' = ""
                            /\ UNCHANGED <<db, mem, call, nops, pc>>
    /\ UNCHANGED <<perm, nflows, login, show_archived, ename, inst, fields>>

(* ---------------------------- MainController --------------------------- *)
\* run: the home menu, choice 1; connexion hands back the collaborator of
\* the name and password typed, archived or not
Connexion(uid) ==
    /\ pc = "home"
    /\ Has(mem, "collaborator", uid)
    /\ login' = uid
    /\ pc' = "menu"
    /\ UNCHANGED <<db, mem, call, nops, perm, nflows, show_archived, ename,
                   inst, fields, data, edits, shown>>

\* handle_entity_action: the choice of disconnection leads back to the
\* home menu; SESSION keeps the user and the flag
Disconnect ==
    /\ pc = "menu"
    /\ pc' = "home"
    /\ UNCHANGED <<db, mem, call, nops, perm, nflows, login, show_archived,
                   ename, inst, fields, data, edits, shown>>

\* handle_user_role_action: the extra option of the admin calls
\* show_archived, which flips SESSION["show_archived"]
ShowArchived ==
    /\ pc = "menu"
    /\ LoggedIn
    /\ UserObj(mem, login).role = "admin"
    /\ show_archived' = ~show_archived
    /\ UNCHANGED <<db, mem, call, nops, perm, nflows, login, pc, ename,
                   inst, fields, data, edits, shown>>

\* handle_user_role_action and details_entity: list_entity(session,
\* entity_name), without user, displays the rows of the kind
ListEntity(k) ==
    /\ pc = "menu"
    /\ nops < MaxOps
    /\ LoggedIn
    /\ call' = [op |-> "list", kind |-> k,
                role |-> UserObj(mem, login).role,
                archived |-> show_archived,
                rows |-> filter_by_fields(mem, k, show_archived, <<>>).rows]
    /\ nops' = nops + 1
    /\ ename' = k
    /\ UNCHANGED <<db, mem, perm, nflows, login, show_archived, pc, inst,
                   fields, data, edits, shown>>

\* field_path.split(".") on the names of the field lists
FieldPath(name) ==
    CASE name = "commercial.full_name" -> <<"commercial", "full_name">>
      [] name = "client.company_name" -> <<"client", "company_name">>
      [] OTHER -> <<name>>

\* the entries of the order menu whose column the model keeps
OrderChoices(k, fs) == {i \in 1..Len(fs) : fs[i] \in Cols(k)}

\* order_by_field_entity: the field list, the listing, the field chosen and
\* the ordered listing.  The call is Model.order_by_fields(session,
\* asked_field[0], descending): its parameter archived keeps the default.
\* Event has no get_fields and the call raises
OrderByFieldEntity(k, choice, descending) ==
    /\ pc = "menu"
    /\ nops < MaxOps
    /\ LoggedIn
    /\ ename' = k
    /\ IF ~HasGetFields(k)
       THEN /\ pc' = "crashed"
            /\ UNCHANGED <<call, nops>>
       ELSE LET fs == get_fields(k, UserObj(mem, login).role, "list")
            IN  /\ choice \in OrderChoices(k, fs)
                /\ LET out == order_by_fields(mem, k,
                                  FieldPath(fs[choice]), descending, FALSE)
                   IN  call' = [op |-> "order_flow", kind |-> k,
                                path |-> FieldPath(fs[choice]),
                                descending |-> descending,
                                archived |-> show_archived,
                                listed |-> filter_by_fields(mem, k,
                                               show_archived, <<>>).rows,
                                raised |-> out.raised, rows |-> out.rows]
                /\ nops' = nops + 1
                /\ pc' = pc
    /\ UNCHANGED <<db, mem, perm, nflows, login, show_archived, inst,
                   fields, data, edits, shown>>

\* no flow entered yet: the controller shows the menu to the first user
AtMenu ==
    /\ pc = "menu"
    /\ ename = "none"
    /\ inst = NULL
    /\ fields = <<>>
    /\ data = <<>>
    /\ edits = <<>>
    /\ shown = ""

Init ==
    /\ db = Seed
    /\ mem = Seed
    /\ call = [op |-> "none"]
    /\ nops = 0
    /\ nflows = 0
    /\ perm = [action |-> "none"]
    /\ login = 1
    /\ show_archived = FALSE
    /\ AtMenu

\* the operations that write to the session
Write ==
    \/ \E k \in Kinds, fault \in BOOLEAN : Save(k, fault)
    \/ \E k \in Kinds, id \in Ids : \E attr \in Cols(k) :
           \E v \in AttrValues(k, attr) : SetAttr(k, id, attr, v)
    \/ \E k \in Kinds, id \in Ids, fault \in BOOLEAN : Update(k, id, fault)
    \/ \E k \in Kinds, id \in Ids, fault \in BOOLEAN :
           SoftDelete(k, id, fault)
    \/ \E k \in Kinds, id \in Ids, fault \in BOOLEAN :
           HardDelete(k, id, fault)

Next ==
    \/ Write
    \/ \E k \in Kinds, archived \in BOOLEAN, uid \in Ids :
           Filter(k, archived, uid)

Spec == Init /\ [][Next]_vars

NextArchive ==
    \/ \E k \in Kinds, fault \in BOOLEAN : Save(k, fault)
    \/ \E k \in Kinds, id \in Ids, fault \in BOOLEAN :
           SoftDelete(k, id, fault)
    \/ \E k \in Kinds, id \in Ids, fault \in BOOLEAN :
           HardDelete(k, id, fault)

\* the repository operations that leave no change pending: soft_delete is
\* the only one that archives a record
SpecArchive == Init /\ [][NextArchive]_vars

\* the paths given to order_by_fields: the columns and relationships of
\* the class, columns of related classes, and names that are none
OrderPaths(k) ==
    {<<c>> : c \in Cols(k) \cup Rels(k)}
    \cup {<<"ghost">>, <<"ghost", "id">>}
    \cup CASE k = "collaborator" -> {}
           [] k = "client" ->
                 {<<"commercial", "role">>, <<"commercial", "ghost">>,
                  <<"contracts", "id">>}
           [] k = "contract" ->
                 {<<"client", "commercial", "role">>, <<"event", "id">>,
                  <<"client", "ghost">>}
           [] k = "event" ->
                 {<<"support", "role">>, <<"contract", "signed">>,
                  <<"contract", "archived">>, <<"support", "ghost">>}

\* Model.order_by_fields(session, field_path, descending, archived); it
\* reads the session only, so that a call right after another call meets
\* the store of that call and is left out
OrderBy(k, descending, archived) ==
    /\ nops < MaxOps
    /\ call.op # "order"
    /\ \E path \in OrderPaths(k) :
           LET out == order_by_fields(mem, k, path, descending, archived)
           IN  call' = [op |-> "order", kind |-> k, path |-> path,
                        descending |-> descending, archived |-> archived,
                        raised |-> out.raised, rows |-> out.rows]
    /\ nops' = nops + 1
    /\ UNCHANGED <<db, mem, perm, flow>>

\* the stores order_by_fields may meet: the second collaborator is or is
\* not the support of the event, and the first client may have lost its
\* commercial
InitOrder ==
    /\ \E owner \in {NULL, 2}, support \in {NULL, 2} :
           db = [Seed EXCEPT
                   !.client = {IF c.id = 1
                               THEN [c EXCEPT !.id_commercial = owner]
                               ELSE c : c \in @},
                   !.event = {[e EXCEPT !.support_id = support] : e \in @}]
    /\ mem = db
    /\ call = [op |-> "none"]
    /\ nops = 0
    /\ nflows = 0
    /\ perm = [action |-> "none"]
    /\ login = 1
    /\ show_archived = FALSE
    /\ AtMenu

NextOrder ==
    \/ \E k \in Kinds : Save(k, FALSE)
    \/ \E k \in Kinds, id \in Ids : SoftDelete(k, id, FALSE)
    \/ \E k \in Kinds, descending \in BOOLEAN, archived \in BOOLEAN :
           OrderBy(k, descending, archived)

\* order_by_fields called with every path on the stores that save and
\* soft_delete leave
SpecOrder == InitOrder /\ [][NextOrder]_vars

PermAttrs == {"role", "id_commercial", "support_id"}

NextPerm ==
    \/ \E k \in Kinds, id \in Ids : \E attr \in Cols(k) \cap PermAttrs :
           \E v \in AttrValues(k, attr) : SetAttr(k, id, attr, v)
    \/ \E k \in Kinds, id \in Ids, fault \in BOOLEAN : Update(k, id, fault)
    \/ \E uid \in Ids, action \in Actions :
           \E item \in PersistentItems(mem) \cup TransientItems(mem) :
               PermCheck(uid, action, item)

\* the permission evaluator applied to the objects of every reachable session
SpecPerm == Init /\ [][NextPerm]_vars

\* the stores a session may start from: the second collaborator holds any
\* role and may be the support of the event
SeedFlow(role, support) ==
    [Seed EXCEPT
       !.collaborator = {IF c.id = 2 THEN [c EXCEPT !.role = role] ELSE c :
                             c \in @},
       !.event = {[e EXCEPT !.support_id = support] : e \in @}]

InitFlow ==
    /\ \E role \in Roles, support \in {NULL, 2} :
           db = SeedFlow(role, support)
    /\ mem = db
    /\ call = [op |-> "none"]
    /\ nops = 0
    /\ nflows = 0
    /\ perm = [action |-> "none"]
    /\ login \in Ids
    /\ show_archived \in BOOLEAN
    /\ AtMenu

NextDelete ==
    \/ \E k \in Kinds : StartDelete(k)
    \/ \E id \in {NULL} \cup Ids : DeleteAskId(id)
    \/ \E yes \in BOOLEAN, fault \in BOOLEAN : DeleteConfirm(yes, fault)

\* delete_entity run by any user on any kind, one flow after another
SpecDelete == InitFlow /\ [][NextDelete]_vars

\* the inputs of a prompt of the create flow
NextCreate ==
    \/ \E k \in Kinds : StartCreate(k)
    \/ /\ pc = "create_ask"
       /\ \E fault \in BOOLEAN :
              \E raw \in CreateValues(ename, FieldAt(fields,
                                              Cardinality(DOMAIN edits))) :
                  CreateInput(raw, fault)

\* create_entity run by any user whose menu offers it, on any kind
SpecCreate == InitFlow /\ [][NextCreate]_vars

\* the three flows that look a record up by the id typed; between two
\* flows records get archived
NextLookup ==
    \/ \E k \in Kinds, id \in Ids : pc = "menu" /\ SoftDelete(k, id, FALSE)
    \/ \E k \in Kinds : StartDetails(k)
    \/ \E id \in {NULL} \cup Ids : DetailsAskId(id)
    \/ \E k \in Kinds : StartDelete(k)
    \/ \E id \in {NULL} \cup Ids : DeleteAskId(id)
    \/ \E k \in Kinds : StartModify(k)
    \/ \E id \in {NULL} \cup Ids : ModifyAskId(id)

\* any user, with either setting of show_archived
InitLookup ==
    /\ \E role \in Roles : db = SeedFlow(role, NULL)
    /\ mem = db
    /\ call = [op |-> "none"]
    /\ nops = 0
    /\ nflows = 0
    /\ perm = [action |-> "none"]
    /\ login \in Ids
    /\ show_archived \in BOOLEAN
    /\ AtMenu

SpecLookup == InitLookup /\ [][NextLookup]_vars

\* the numbers a user may type at the order menu
MenuLen(k) == IF HasGetFields(k) THEN Len(AllFields(k)) ELSE 1

\* one run of the application: users log in and out, the admin flips the
\* flag, records get archived, and the listings are displayed
NextSession ==
    \/ \E uid \in Ids : Connexion(uid)
    \/ Disconnect
    \/ ShowArchived
    \/ \E k \in Kinds, id \in Ids : pc = "menu" /\ SoftDelete(k, id, FALSE)
    \/ \E k \in Kinds : ListEntity(k)
    \/ \E k \in Kinds, descending \in BOOLEAN :
           \E choice \in 1..MenuLen(k) :
               OrderByFieldEntity(k, choice, descending)

\* the start of a run: the home menu, nobody logged in, SESSION as
\* settings.py builds it
InitSession ==
    /\ \E role \in Roles : db = SeedFlow(role, NULL)
    /\ mem = db
    /\ call = [op |-> "none"]
    /\ nops = 0
    /\ nflows = 0
    /\ perm = [action |-> "none"]
    /\ login = NULL
    /\ show_archived = FALSE
    /\ pc = "home"
    /\ ename = "none"
    /\ inst = NULL
    /\ fields = <<>>
    /\ data = <<>>
    /\ edits = <<>>
    /\ shown = ""

SpecSession == InitSession /\ [][NextSession]_vars

\* the inputs of the modify menu: -1 and every index of the menu
NextModify ==
    \/ \E k \in Kinds : StartModify(k)
    \/ \E id \in {NULL} \cup Ids : ModifyAskId(id)
    \/ \E choice \in -1..(Len(fields) - 1) :
           \E raw \in IF fields = <<>> THEN {NULL}
                      ELSE RawValues(ename, PyIndex(fields, choice)) :
               ModifyEdit(choice, raw)
    \/ ModifyCancel
    \/ \E fault \in BOOLEAN : ModifySave(fault)

\* modify_entity run by any user on any kind, one flow after another
SpecModify == InitFlow /\ [][NextModify]_vars

\* the names a field descriptor may carry: the fields of the class and a
\* name that is none
FieldNames(k) ==
    {"nonexistent"}
    \cup IF k = "event" THEN Validators(k) \cup {"id"}
         ELSE {AllFields(k)[i] : i \in 1..Len(AllFields(k))}

\* the data dict of a call: the input under the name of the field and,
\* for amount_due, the total_amount entered before it
CallData(field, raw, total) ==
    [f \in {field} \cup (IF field = "amount_due" THEN {"total_amount"}
                          ELSE {}) |->
        IF f = field THEN raw ELSE total]

\* validate_field(Model, [field, label], session, user, data) called on
\* its own
Validate(k, field, uid) ==
    /\ nops < MaxOps
    /\ Has(mem, "collaborator", uid)
    /\ field \in Followed(k) \cup (FieldNames(k) \ Validators(k))
    /\ \E raw \in RawValues(k, field) :
           \E total \in IF field = "amount_due"
                         THEN RawValues(k, "total_amount") ELSE {NULL} :
               LET v == validate_field(mem, k, field, UserObj(mem, uid),
                                       CallData(field, raw, total))
               IN  call' = [op |-> "validate_field", kind |-> k,
                            field |-> field, user |-> uid, raw |-> raw,
                            total |-> total, out |-> v.out,
                            value |-> v.value, error |-> v.error]
    /\ nops' = nops + 1
    /\ UNCHANGED <<db, mem, perm, flow>>

Purposes == {"list", "create", "modify"}

\* Model.get_fields(role, purpose) called on its own, also with a role that
\* is none; on a class without the method the attribute lookup raises
GetFields(k, role, purpose) ==
    /\ nops < MaxOps
    /\ call' = [op |-> "get_fields", kind |-> k, role |-> role,
                purpose |-> purpose,
                raised |-> IF HasGetFields(k) THEN "" ELSE "AttributeError",
                rows |-> IF HasGetFields(k)
                         THEN get_fields(k, role, purpose) ELSE <<>>]
    /\ nops' = nops + 1
    /\ UNCHANGED <<db, mem, perm, flow>>

\* the stores the validators may meet: the second collaborator holds any
\* role and the first client may have lost its commercial
SeedValidate(role, owner) ==
    [Seed EXCEPT
       !.collaborator = {IF c.id = 2 THEN [c EXCEPT !.role = role] ELSE c :
                             c \in @},
       !.client = {IF c.id = 1 THEN [c EXCEPT !.id_commercial = owner]
                   ELSE c : c \in @}]

InitValidate ==
    /\ \E role \in Roles, owner \in {NULL, 2} :
           db = SeedValidate(role, owner)
    /\ mem = db
    /\ call = [op |-> "none"]
    /\ nops = 0
    /\ nflows = 0
    /\ perm = [action |-> "none"]
    /\ login = 1
    /\ show_archived = FALSE
    /\ AtMenu

NextValidate ==
    \/ \E fault \in BOOLEAN : Save("contract", fault)
    \/ \E id \in Ids, fault \in BOOLEAN : SoftDelete("contract", id, fault)
    \/ \E id \in Ids, fault \in BOOLEAN : HardDelete("event", id, fault)
    \/ \E id \in Ids, v \in BOOLEAN : SetAttr("contract", id, "signed", v)
    \/ \E k \in Kinds, uid \in Ids :
           \E field \in Followed(k) \cup (FieldNames(k) \ Validators(k)) :
               Validate(k, field, uid)
    \/ \E k \in Kinds, role \in Roles \cup {"chef"} :
           \E purpose \in Purposes : GetFields(k, role, purpose)

\* get_fields and validate_field called with every input on the stores that
\* contract and event operations leave
SpecValidate == InitValidate /\ [][NextValidate]_vars

(* ============================== claims ================================ *)
Rows(c) == {c.rows[i] : i \in 1..Len(c.rows)}

\* C1: a filter that does not ask for archived records never returns a
\* record whose archived flag is true, whatever the filter map and the
\* operations made on the store before.
C1_NoArchivedRow ==
    (call.op = "filter" /\ ~call.archived) =>
        \A r \in Rows(call) : r.archived = FALSE

C1_Witness ==
    /\ call.op = "filter"
    /\ ~call.archived
    /\ call.filters = <<>>
    /\ Rows(call) # {}
    /\ \E r \in mem[call.kind] :
           /\ r.archived
           /\ ~(call.kind = "collaborator" /\ r.id = 1)
           /\ r \notin Rows(call)

PermDone == perm.action # "none"

\* C2: an admin is authorized for every action on every object, also on an
\* object of no mapped class.
C2_AdminAlways ==
    (PermDone /\ perm.user.role = "admin") => perm.result = TRUE

C2_Witness ==
    /\ PermDone
    /\ perm.user.role = "admin"
    /\ perm.item.kind = "other"
    /\ perm.result = TRUE

NonAdminOn(k) ==
    PermDone /\ perm.user.role # "admin" /\ perm.item.kind = k

\* C3 as stated: on a client a non-admin is authorized exactly when they are
\* the client's commercial, and a support or gestion user is always refused.
C3_Original ==
    NonAdminOn("client") =>
        /\ perm.result <=> (perm.item.commercial = perm.user.ref)
        /\ perm.user.role \in {"support", "gestion"} => ~perm.result

\* C3 amended: on a client a non-admin is authorized exactly when they are
\* the client's commercial, whatever role they hold now.
C3_OwnerOnly ==
    NonAdminOn("client") =>
        (perm.result <=> (perm.item.commercial = perm.user.ref))

C3_Witness ==
    /\ NonAdminOn("client")
    /\ perm.user.role = "support"
    /\ perm.item.commercial = perm.user.ref
    /\ perm.item.ref[1] = "p"
    /\ perm.result = TRUE

Own(user, item) == item.ref = user.ref \/ item.id = user.id

\* C4: on a collaborator record a non-admin is authorized for the password
\* action only on their own record, and for any other action on their own
\* record or when they hold the gestion role; records without id included.
C4_Collaborator ==
    NonAdminOn("collaborator") =>
        IF perm.action = "password"
        THEN perm.result <=> Own(perm.user, perm.item)
        ELSE perm.result <=>
                 (Own(perm.user, perm.item) \/ perm.user.role = "gestion")

C4_Witness ==
    /\ NonAdminOn("collaborator")
    /\ perm.user.role = "gestion"
    /\ perm.action = "password"
    /\ perm.item.id = NULL
    /\ perm.result = FALSE

\* C5: on an event a non-admin is authorized exactly when they are its
\* support, or hold the gestion role and the action is update.
C5_Event ==
    NonAdminOn("event") =>
        /\ perm.result <=>
               \/ perm.item.support = perm.user.ref
               \/ perm.user.role = "gestion" /\ perm.action = "update"
        /\ (perm.item.support = NoneRef
              /\ perm.user.role \in {"support", "commercial"}) => ~perm.result

C5_Witness ==
    /\ NonAdminOn("event")
    /\ perm.user.role = "gestion"
    /\ perm.action = "delete"
    /\ perm.item.support # perm.user.ref
    /\ perm.result = FALSE

\* C6: on a contract a non-admin is authorized exactly when their role is
\* gestion, whoever the contract's client and commercial are.
C6_Contract ==
    NonAdminOn("contract") => (perm.result <=> perm.user.role = "gestion")

C6_Witness ==
    /\ NonAdminOn("contract")
    /\ perm.user.role = "commercial"
    /\ perm.item.ref[1] = "p"
    /\ \E c \in mem["contract"] : \E cl \in mem["client"] :
           /\ c.id = perm.item.id
           /\ cl.id = c.client_id
           /\ cl.id_commercial = perm.user.id
    /\ perm.result = FALSE

\* the value an attribute holds: a column, or the key of the related object
AttrIs(S, k, r, attr, val) ==
    IF attr \in Cols(k) THEN r[attr] = val
    ELSE LET objs == {t \in S[RelTarget(k, attr)] :
                         IF attr \in ManyToOne THEN t.id = r[RelFk(attr)]
                         ELSE t[RelFk(attr)] = r.id}
         IN  IF val = NULL THEN objs = {} ELSE \E t \in objs : t.id = val

RECURSIVE PathHolds(_, _, _, _, _)
PathHolds(S, k, r, path, val) ==
    IF Len(path) = 1 THEN AttrIs(S, k, r, path[1], val)
    ELSE \E t \in S[RelTarget(k, path[1])] :
             /\ IF path[1] \in ManyToOne THEN t.id = r[RelFk(path[1])]
                ELSE t[RelFk(path[1])] = r.id
             /\ PathHolds(S, RelTarget(k, path[1]), t, Tail(path), val)

Expected(S, k, archived, filters) ==
    {r \in S[k] :
        /\ ~(k = "collaborator" /\ r.id = 1)
        /\ archived \/ ~r.archived
        /\ \A i \in 1..Len(filters) :
               PathHolds(S, k, r, filters[i].path, filters[i].val)}

\* C7: a filter returns exactly the records of the kind, the bootstrap
\* collaborator apart, that are visible under the archived flag and satisfy
\* every (path, value) pair of the map; each of them once.
C7_FilterExact ==
    (call.op = "filter" /\ call.raised = "") =>
        /\ Rows(call) = Expected(mem, call.kind, call.archived, call.filters)
        /\ Len(call.rows) = Cardinality(Rows(call))

C7_Witness ==
    /\ call.op = "filter"
    /\ Len(call.filters) = 3
    /\ Rows(call) # {}
    /\ \E r \in mem[call.kind] : ~r.archived /\ r \notin Rows(call)

CommitOps == {"save", "update", "soft_delete", "hard_delete"}

\* what a committed operation leaves in the committed store
Effect(c, D, M) ==
    CASE c.op = "save" -> Has(D, c.kind, c.id)
      [] c.op = "update" -> D = M
      [] c.op = "soft_delete" ->
            Has(D, c.kind, c.id) /\ Get(D, c.kind, c.id).archived
      [] c.op = "hard_delete" -> ~Has(D, c.kind, c.id)

KeysOf(S) == [k \in Kinds |-> {r.id : r \in S[k]}]

\* C8: in the delete flow hard_delete is called on a record only when the
\* acting user is admin and has_object_permission(user, "delete", record)
\* returned true for that record; a deletion confirmed by a non-admin calls
\* soft_delete, and no row leaves the committed store.
C8_DeleteFlow ==
    [][(nops' = nops + 1) =>
           LET u == UserObj(mem, login)
               record == ItemOf(mem, ename, Get(mem, ename, inst))
           IN  /\ call'.op \in {"soft_delete", "hard_delete"}
               /\ call'.kind = ename /\ call'.id = inst
               /\ call'.op = "hard_delete" =>
                      /\ u.role = "admin"
                      /\ perm = Evaluation(u, "delete", record)
                      /\ perm.result = TRUE
               /\ u.role # "admin" =>
                      /\ call'.op = "soft_delete"
                      /\ KeysOf(db') = KeysOf(db)]_vars

C8_Witness ==
    /\ pc = "menu"
    /\ call.op = "soft_delete"
    /\ call.result = "success"
    /\ LoggedIn
    /\ UserObj(mem, login).role = "gestion"
    /\ perm.action = "delete"
    /\ perm.result = TRUE
    /\ Has(db, ename, inst)
    /\ Get(db, ename, inst).archived

\* the step of the modify flow that takes the save option
IsSave == pc = "modify_menu" /\ nops' = nops + 1

\* the step of the modify flow that takes the cancel option
IsCancel == pc = "modify_menu" /\ pc' = "menu" /\ nops' = nops

\* C10: in the modify flow nothing is committed before the save option is
\* taken, a save that succeeds commits every edit the flow accepted, and the
\* cancel option leaves the committed store as it was and puts the record
\* in memory back to its committed values.
C10_Original ==
    [][/\ (pc \in {"modify_ask", "modify_menu"} /\ ~IsSave) => db' = db
       /\ (IsSave /\ call'.result = "success") =>
              \A a \in DOMAIN edits :
                  Get(db', ename, inst)[a] = edits[a]
       /\ IsCancel =>
              /\ db' = db
              /\ Get(mem', ename, inst) = Get(db, ename, inst)]_vars

\* the typed value was not accepted: the validator handed back an error or
\* raised one
Rejected(field, raw) == EditResult(field, raw).out \in {"error", "raise"}

\* C11: in the modify flow a value the validator rejects leaves the record
\* as it was, the user reads a message and the menu comes back; a record
\* the user may not update is left as it was, the user reads a message and
\* the flow asks for another id instead of showing the menu.
C11_RejectionRecovered ==
    [][/\ (pc = "modify_menu" /\ fields # <<>>) =>
              \A choice \in -1..(Len(fields) - 1) :
                  \A raw \in RawValues(ename, PyIndex(fields, choice)) :
                      (/\ ModifyEdit(choice, raw)
                       /\ Rejected(PyIndex(fields, choice), raw)) =>
                          /\ Get(mem', ename, inst) = Get(mem, ename, inst)
                          /\ shown' = EditResult(PyIndex(fields, choice),
                                                 raw).error
                          /\ pc' = "modify_menu"
       /\ \A id \in Ids :
              (/\ ModifyAskId(id)
               /\ Lookup(mem, ename, show_archived, id) # <<>>
               /\ ~has_object_permission(UserObj(mem, login), "update",
                       ItemOf(mem, ename,
                              Lookup(mem, ename, show_archived, id)[1]))) =>
                  /\ mem' = mem
                  /\ db' = db
                  /\ shown' = "Vous n'avez pas l'autorisation"
                  /\ pc' = "modify_ask"]_vars
ValidateDone == call.op = "validate_field"

\* C12: validate_field hands back (value, None) or (None, errorMessage) for
\* every kind, field with a validator and input; no exception leaves it.
C12_NeverRaises ==
    (ValidateDone /\ HasValidator(call.kind, call.field)) =>
        \/ call.out = "value"
        \/ call.out = "error" /\ call.error # ""
\* C13: for a field name whose validate_<name> the class does not define,
\* validate_field hands back (None, error) with the missing method named in
\* the error; it returns no value, raises nothing and leaves the session
\* and the user as they were.
C13_MissingValidator ==
    [][(/\ call'.op = "validate_field"
        /\ nops' = nops + 1
        /\ ~HasValidator(call'.kind, call'.field)) =>
           /\ call'.out = "error"
           /\ call'.error = "validate_" \o call'.field
           /\ db' = db
           /\ mem' = mem
           /\ login' = login]_vars

C13_Witness ==
    /\ ValidateDone
    /\ call.kind = "client"
    /\ call.field = "created_date"
    /\ call.out = "error"
    /\ call.error = "validate_created_date"
\* the roles the claim names for each kind
Allowed(k) ==
    IF k = "client" THEN {"admin", "commercial"} ELSE {"admin", "gestion"}

NoDuplicate(s) == \A i, j \in 1..Len(s) : s[i] = s[j] => i = j

\* C14: get_fields of Collaborator, Client and Contract gives the full table
\* minus the exclusion set of the purpose, in table order, then archived for
\* the admin when the purpose is not create, and the empty list exactly for
\* a role outside the allow-list when the purpose is not list; no field
\* comes twice and the result is a function of kind, role and purpose.
C14_Fields ==
    (call.op = "get_fields" /\ call.kind # "event") =>
        LET rows == call.rows
            k == call.kind
            body == SelectSeq(rows, LAMBDA f : f # "archived")
            closed == call.purpose # "list" /\ call.role \notin Allowed(k)
        IN  /\ (rows = <<>>) <=> closed
            /\ ~closed =>
                   /\ body = SelectSeq(AllFields(k),
                                 LAMBDA f : f \notin Excepted(k, call.purpose))
                   /\ (rows # body) <=>
                          (call.role = "admin" /\ call.purpose # "create")
                   /\ rows # body => rows = Append(body, "archived")
            /\ NoDuplicate(rows)
            /\ rows = get_fields(k, call.role, call.purpose)

C14_Witness ==
    /\ call.op = "get_fields"
    /\ call.kind = "client"
    /\ call.role = "admin"
    /\ call.purpose = "modify"
    /\ Len(call.rows) = 8
    /\ call.rows[8] = "archived"
ContractIdDone ==
    ValidateDone /\ call.kind = "event" /\ call.field = "contract_id"

\* the contracts of the session with the id of the call
Asked == {c \in mem["contract"] : c.id = call.raw}

NoEvent(c) == \A e \in mem["event"] : e.contract_id # c.id

\* the user of the call is the commercial of the client of contract c
OwnerOf(c) ==
    \E cl \in mem["client"] :
        cl.id = c.client_id /\ cl.id_commercial = call.user

Deleted(k, id) ==
    /\ call.op = "soft_delete"
    /\ call.kind = k
    /\ call.id = id
    /\ call.result = "success"

\* C16: soft_delete applied to a record right after a soft_delete of the
\* same record that returned "success" returns "success" again when its
\* commit goes through, the record is archived, and the second application
\* changes no attribute of no record.
C16_SoftDeleteTwice ==
    [][\A k \in Kinds, id \in Ids :
           (Deleted(k, id) /\ SoftDelete(k, id, FALSE)) =>
               /\ call'.result = "success"
               /\ Get(db', k, id).archived = TRUE
               /\ db' = db
               /\ mem' = mem]_vars

C16_Witness ==
    /\ nops = 2
    /\ call.op = "soft_delete"
    /\ call.result = "success"
    /\ call.was = TRUE
    /\ Get(db, call.kind, call.id).archived = TRUE
OrderDone == call.op = "order"

Reverse(s) == [i \in 1..Len(s) |-> s[Len(s) + 1 - i]]

\* the sort keys of the rows fetched for the last call of order_by_fields
KeysOfCall ==
    LET rows == Fetched(mem, call.kind, call.archived)
    IN  [i \in 1..Len(rows) |-> _resolve(mem, call.kind, rows[i], call.path)]

DistinctKeys ==
    \A i, j \in 1..Len(KeysOfCall) :
        KeysOfCall[i] = KeysOfCall[j] => i = j

\* C17: on the store of an order_by_fields call, whatever the kind, the path
\* and the archived flag, the descending result is the ascending result
\* reversed when no two fetched rows have the same sort key, and both hold
\* the same rows; keys that cannot be compared raise for both directions.
C17_DescendingReverses ==
    OrderDone =>
        LET asc == order_by_fields(mem, call.kind, call.path, FALSE,
                                   call.archived)
            desc == order_by_fields(mem, call.kind, call.path, TRUE,
                                    call.archived)
        IN  /\ call.rows = IF call.descending THEN desc.rows ELSE asc.rows
            /\ DistinctKeys =>
                   /\ desc.raised = asc.raised
                   /\ desc.rows = Reverse(asc.rows)
                   /\ {desc.rows[i] : i \in 1..Len(desc.rows)}
                          = {asc.rows[i] : i \in 1..Len(asc.rows)}

C17_Witness ==
    /\ OrderDone
    /\ call.descending
    /\ call.raised = ""
    /\ DistinctKeys
    /\ Len(call.rows) >= 2
    /\ call.rows # Fetched(mem, call.kind, call.archived)
    /\ call.rows = Reverse(Fetched(mem, call.kind, call.archived))
\* C18: a filter on the field archived with the value true, made while
\* archived records are not asked for, returns the empty list and raises
\* nothing.
C18_ArchivedFilterEmpty ==
    (/\ call.op = "filter"
     /\ ~call.archived
     /\ call.filters = <<[path |-> <<"archived">>, val |-> TRUE]>>) =>
        call.raised = "" /\ call.rows = <<>>
\* a filter map with a name that no class has
GhostIn(filters) ==
    \E i \in 1..Len(filters) :
        \E j \in 1..Len(filters[i].path) : filters[i].path[j] = "ghost"

\* C19: a filter whose path names an unknown attribute or an unknown
\* relation segment ends in an AttributeError that reaches the caller: no
\* list is returned, and neither the committed store nor the session
\* changes.
C19_UnknownFilterRaises ==
    [][(/\ nops' = nops + 1
        /\ call'.op = "filter"
        /\ GhostIn(call'.filters)
        /\ ~KeywordClash(call'.filters)) =>
           /\ call'.raised = "AttributeError"
           /\ call'.rows = <<>>
           /\ db' = db
           /\ mem' = mem]_vars

C19_Witness ==
    /\ call.op = "filter"
    /\ call.kind = "client"
    /\ Len(call.filters) = 1
    /\ call.filters[1].path = <<"commercial", "ghost">>
    /\ call.filters[1].val = 2
    /\ call.raised = "AttributeError"
    /\ \E r \in mem["client"] : ~r.archived /\ r.id_commercial = 2
\* the path of the last order_by_fields call has a name that no class has
GhostPath == \E j \in 1..Len(call.path) : call.path[j] = "ghost"

Target(k, r, rel) == {t \in mem[RelTarget(k, rel)] : t.id = r[RelFk(rel)]}

\* the flag v as the value Python compares
FlagKey(v) == IntKey(IF v THEN 1 ELSE 0)

\* C21: _resolve returns the value reached by following the segments of
\* the path when every step is present, and the empty text as soon as a
\* step is missing; it returns a value in every case, and a flag that is
\* false at the end of the path is returned as itself.
C21_Resolve ==
    OrderDone =>
        \A r \in mem[call.kind] :
            LET k == call.kind
                p == call.path
                key == _resolve(mem, k, r, p)
            IN  /\ _resolve(mem, k, NoRow, p) = Sentinel
                /\ key.t \in {"int", "str", "list"} \cup Kinds
                /\ GhostPath => key = Sentinel
                /\ p = <<"id">> => key = IntKey(r.id)
                /\ (Len(p) = 1 /\ p[1] \in {"archived", "signed"}) =>
                       key = FlagKey(r[p[1]]) /\ key # Sentinel
                /\ (Len(p) = 1 /\ p[1] \in FkCols) =>
                       key = IF r[p[1]] = NULL THEN Sentinel
                             ELSE IntKey(r[p[1]])
                /\ (Len(p) = 2 /\ p[1] \in ManyToOne /\ p[2] = "role") =>
                       IF Target(k, r, p[1]) = {} THEN key = Sentinel
                       ELSE \E t \in Target(k, r, p[1]) :
                                key = StrKey(t.role)
                /\ (Len(p) = 2 /\ p[1] \in ManyToOne
                        /\ p[2] \in {"archived", "signed"}) =>
                       IF Target(k, r, p[1]) = {} THEN key = Sentinel
                       ELSE \E t \in Target(k, r, p[1]) :
                                key = FlagKey(t[p[2]]) /\ key # Sentinel
                /\ p = <<"client", "commercial", "role">> =>
                       IF \E c \in Target(k, r, "client") :
                              Target("client", c, "commercial") # {}
                       THEN \E c \in Target(k, r, "client") :
                                \E u \in Target("client", c, "commercial") :
                                    key = StrKey(u.role)
                       ELSE key = Sentinel

\* a flag that is false is reached behind a relationship
C21_Witness ==
    /\ OrderDone
    /\ call.kind = "event"
    /\ call.path = <<"contract", "archived">>
    /\ call.raised = ""
    /\ \E e \in mem["event"] :
           /\ _resolve(mem, "event", e, call.path) = IntKey(0)
           /\ e.support_id = NULL
           /\ _resolve(mem, "event", e, <<"support", "role">>) = Sentinel
\* the path of the last order_by_fields call ends on a column
ValuePath ==
    /\ ~GhostPath
    /\ call.path[Len(call.path)] \in UNION {Cols(k) : k \in Kinds}

\* C22: an ascending order_by_fields on a column, or on a column behind a
\* relationship, returns a list, and in it every record whose path resolves
\* to a missing value stands before every record whose path resolves to a
\* present value.
C22_MissingFirst ==
    (OrderDone /\ ~call.descending /\ ValuePath) =>
        /\ call.raised = ""
        /\ Len(call.rows) = Len(Fetched(mem, call.kind, call.archived))
        /\ \A i, j \in 1..Len(call.rows) :
               (/\ _resolve(mem, call.kind, call.rows[i], call.path)
                       # Sentinel
                /\ _resolve(mem, call.kind, call.rows[j], call.path)
                       = Sentinel) => j < i
\* no list that filter_by_fields returns on the collaborators of the
\* session holds the record with id 1, for every flag and every filter map
\* of every user
NoBootstrapRow ==
    \A archived \in BOOLEAN, uid \in Ids :
        \A i \in 1..Len(FilterMaps("collaborator", uid)) :
            LET rows == filter_by_fields(mem, "collaborator", archived,
                            FilterMaps("collaborator", uid)[i]).rows
            IN  \A j \in 1..Len(rows) : rows[j].id # 1

\* the step is the lookup of collaborator 1 by one of the three flows
BootstrapAsked ==
    /\ ename = "collaborator"
    /\ \/ DetailsAskId(1)
       \/ DeleteAskId(1)
       \/ ModifyAskId(1)

\* C23: filter_by_fields on the collaborators never returns the record
\* with id 1, whatever the flag, the filter map and the user; the details,
\* modify and delete flows therefore answer "not found" to the id 1 of a
\* collaborator and stay at their prompt; a record with id 1 of another
\* class is returned by the lookup.
C23_BootstrapHidden ==
    /\ [](/\ NoBootstrapRow
          /\ \A k \in Kinds \ {"collaborator"} :
                 \A r \in mem[k] :
                     (r.id = 1 /\ (show_archived \/ ~r.archived)) =>
                         Lookup(mem, k, show_archived, 1) = <<r>>)
    /\ [][BootstrapAsked =>
              /\ shown' \in {"introuvable", "introuvable."}
              /\ pc' = pc
              /\ inst' = inst
              /\ perm' = perm
              /\ mem' = mem /\ db' = db]_vars

\* the admin with id 1 asked for its own record and was told that there
\* is none
C23_Witness ==
    /\ pc = "modify_ask"
    /\ ename = "collaborator"
    /\ login = 1
    /\ shown = "introuvable."
    /\ \E r \in mem["collaborator"] : r.id = 1 /\ r.role = "admin"
    /\ Lookup(mem, "collaborator", TRUE, 1) = <<>>
\* the six detail fields of an event
EventDetails ==
    <<"title", "start_date", "end_date", "location", "participants", "notes">>

\* C24: get_fields answers for Event as for the other classes: for modify
\* it gives gestion the support_id descriptor alone, support the six detail
\* fields, admin those six, support_id and archived; for create it gives
\* commercial and admin contract_id and the six detail fields.
C24_EventFields ==
    (call.op = "get_fields" /\ call.kind = "event") =>
        /\ call.raised = ""
        /\ (call.purpose = "modify" /\ call.role = "gestion") =>
               call.rows = <<"support_id">>
        /\ (call.purpose = "modify" /\ call.role = "support") =>
               call.rows = EventDetails
        /\ (call.purpose = "modify" /\ call.role = "admin") =>
               call.rows = EventDetails \o <<"support_id", "archived">>
        /\ (call.purpose = "create"
                /\ call.role \in {"commercial", "admin"}) =>
               call.rows = <<"contract_id">> \o EventDetails
\* the create flow has saved a record
Created ==
    /\ pc = "menu"
    /\ call.op = "save"
    /\ call.result = "success"

\* C25: create_entity saves a record only when every field of
\* get_fields(role, "create") holds a value that its validator handed back
\* or the id of the commercial given without a prompt, whatever is typed,
\* "quit" included, and the flow never ends with an error.
C25_CreateValidated ==
    /\ pc # "crashed"
    /\ Created =>
           \A i \in 1..Len(fields) :
               /\ fields[i] \in DOMAIN edits
               /\ data[fields[i]] = edits[fields[i]]
\* C26: the flows set only values that the validators accepted, and every
\* committed contract has 0 <= amount_due <= total_amount; total_amount
\* cannot be brought below the amount_due of the record.
C26_AmountsOrdered ==
    \A c \in db["contract"] :
        0 <= c.amount_due /\ c.amount_due <= c.total_amount

\* C28: in one run of the application the flag show_archived is true only
\* while the logged-in user is admin: whenever a non-admin is logged in the
\* flag is false, and every listing shown to a non-admin holds no archived
\* record.
C28_FlagOnlyAdmin ==
    /\ (pc # "home" /\ UserObj(mem, login).role # "admin") => ~show_archived
    /\ (call.op = "list" /\ call.role # "admin") =>
           \A r \in Rows(call) : ~r.archived

\* C30: for every kind other than collaborator the records that the
\* order-by flow displays are a permutation of the records that the
\* unfiltered listing displays under the same setting of show_archived.
C30_OrderKeepsRows ==
    (call.op = "order_flow" /\ call.kind # "collaborator") =>
        /\ call.raised = ""
        /\ Len(call.rows) = Len(call.listed)
        /\ Rows(call) = {call.listed[i] : i \in 1..Len(call.listed)}

\* the field names of the menu that modify_entity built
MenuFields == {fields[i] : i \in 1..Len(fields)}

\* C29: for every role the field lists of a collaborator for the purposes
\* list and modify never hold the password, and the modify flow adds the
\* password to its menu if and only if the record selected is the record of
\* the acting user, whatever the role.
C29_PasswordOwnOnly ==
    /\ [](\A role \in Roles : \A purpose \in {"list", "modify"} :
             LET fs == get_fields("collaborator", role, purpose)
             IN  \A i \in 1..Len(fs) : fs[i] # "password")
    /\ [][(pc = "modify_ask" /\ pc' = "modify_menu") =>
              (("password" \in MenuFields') <=>
                   (ename = "collaborator" /\ inst' = login))]_vars

\* a gestion user reached the menu of their own record: the password is
\* its second entry
C29_Witness ==
    /\ pc = "modify_menu"
    /\ ename = "collaborator"
    /\ inst = login
    /\ UserObj(mem, login).role = "gestion"
    /\ fields = Insert1(get_fields("collaborator", "gestion", "modify"),
                        "password")
    /\ fields[2] = "password"
====
